---- MODULE Spec2Model ----
(***************************************************************************)
(* Model of the AI grading pipeline of ainki:                              *)
(*   pylib/anki/ai_client.py   AIClient (prompt, HTTP call, normalisation) *)
(*   pylib/anki/orchestrator.py AIReviewOrchestrator.evaluate              *)
(*   qt/aqt/ai_reviewer.py     AIReviewer (background evaluation, UI)      *)
(*                                                                         *)
(* A Python str is a sequence of symbols.  A symbol is one character where *)
(* the code looks at characters (white space, sign, digits) and a whole    *)
(* word or literal where it only compares or concatenates.                 *)
(***************************************************************************)
EXTENDS Integers, Sequences, FiniteSets, TLC

\* ------------------------------------------------------------- bounds
\* Integers a JSON reply carries range over -1..MaxInt; digit characters
\* of numeric strings over "0"..MaxInt.
MaxInt == 5
\* White space around a numeric or feedback string: 0..MaxPad blanks.
MaxPad == 1
\* HTTP requests a run issues.
MaxRequests == 2

\* ------------------------------------------------------------- Python values
\* A decoded JSON value (or a Python value): t is the Python type, s the
\* text of a str, n the number of an int/bool (True is 1, False is 0), the
\* tenfold of a float, the length of a list or dict.
JStr(x) == [t |-> "str", s |-> x, n |-> 0]
JInt(k) == [t |-> "int", s |-> <<>>, n |-> k]
JBool(b) == [t |-> "bool", s |-> <<>>, n |-> IF b THEN 1 ELSE 0]
JFloat(tenths) == [t |-> "float", s |-> <<>>, n |-> tenths]
JList(len) == [t |-> "list", s |-> <<>>, n |-> len]
JDict(len) == [t |-> "dict", s |-> <<>>, n |-> len]
JNull == [t |-> "NoneType", s |-> <<>>, n |-> 0]
\* A key the JSON object does not have.
Absent == [t |-> "absent", s |-> <<>>, n |-> 0]

\* bool(x)
Truthy(x) ==
    CASE x.t = "str" -> x.s # <<>>
      [] x.t \in {"int", "bool", "float", "list", "dict"} -> x.n # 0
      [] OTHER -> FALSE

\* hash(x) succeeds
Hashable(x) == x.t \notin {"list", "dict"}

\* x == y in Python, for the comparisons the code makes (dict keys against
\* a value): True == 1 and 1.0 == 1, a str equals only a str.
PyEq(x, y) ==
    CASE x.t = "str" /\ y.t = "str" -> x.s = y.s
      [] x.t \in {"int", "bool"} /\ y.t \in {"int", "bool"} -> x.n = y.n
      [] x.t \in {"int", "bool"} /\ y.t = "float" -> 10 * x.n = y.n
      [] x.t = "float" /\ y.t \in {"int", "bool"} -> x.n = 10 * y.n
      [] x.t = "float" /\ y.t = "float" -> x.n = y.n
      [] OTHER -> x.t = y.t /\ x.t = "NoneType"

\* isinstance(x, str) and isinstance(x, int): bool is a subclass of int.
IsInstanceStr(x) == x.t = "str"
IsInstanceInt(x) == x.t \in {"int", "bool"}

\* ------------------------------------------------------------- str methods
Whitespace == {" "}
Digits == <<"0", "1", "2", "3", "4", "5", "6", "7", "8", "9">>
DigitSet == {Digits[i] : i \in 1..Len(Digits)}
DigitValue(c) == (CHOOSE i \in 1..Len(Digits) : Digits[i] = c) - 1

RECURSIVE LStrip(_)
LStrip(s) ==
    IF s # <<>> /\ Head(s) \in Whitespace THEN LStrip(Tail(s)) ELSE s

RECURSIVE RStrip(_)
RStrip(s) ==
    IF s # <<>> /\ s[Len(s)] \in Whitespace
    THEN RStrip(SubSeq(s, 1, Len(s) - 1))
    ELSE s

\* str.strip()
Strip(s) == RStrip(LStrip(s))

RECURSIVE DigitsValue(_)
DigitsValue(ds) ==
    IF ds = <<>> THEN 0
    ELSE 10 * DigitsValue(SubSeq(ds, 1, Len(ds) - 1)) + DigitValue(ds[Len(ds)])

\* int(s) of a str: surrounding white space and one sign are accepted, then
\* decimal digits only; anything else is a ValueError.
PyInt(s) ==
    LET t == Strip(s)
        signed == t # <<>> /\ Head(t) \in {"+", "-"}
        body == IF signed THEN Tail(t) ELSE t
        wellFormed == body # <<>> /\ \A i \in 1..Len(body) : body[i] \in DigitSet
    IN  IF wellFormed
        THEN [exc |-> "", n |-> IF signed /\ Head(t) = "-"
                                THEN 0 - DigitsValue(body)
                                ELSE DigitsValue(body)]
        ELSE [exc |-> "ValueError", n |-> 0]

\* ------------------------------------------------------------- AIEvalResult
Correct == <<"Correct">>
PartiallyCorrect == <<"Partially Correct">>
Incorrect == <<"Incorrect">>
Again == <<"Again">>
Hard == <<"Hard">>
Good == <<"Good">>
Easy == <<"Easy">>

\* The dataclass: five fields.  The annotations are not enforced, so a field
\* holds whatever Python value the code stores there.
AIEvalResult(verdict, suggested_rating, key_fix, memory_tip, raw_response) ==
    [verdict |-> verdict, suggested_rating |-> suggested_rating,
     key_fix |-> key_fix, memory_tip |-> memory_tip,
     raw_response |-> raw_response]

\* ------------------------------------------------------------- reply texts
\* A decoded JSON document: its top-level value and, for an object, the
\* values of the keys the code reads (Absent when the key is missing) and
\* of one key it never reads.
Doc(top, verdict, suggested_rating, feedback, key_fix, memory_tip, extra) ==
    [top |-> top, verdict |-> verdict, suggested_rating |-> suggested_rating,
     feedback |-> feedback, key_fix |-> key_fix, memory_tip |-> memory_tip,
     extra |-> extra]
NonObject(v) == Doc(v, Absent, Absent, Absent, Absent, Absent, Absent)
Object(v, r, f, k, m, x) ==
    Doc(JDict(Cardinality({i \in 1..6 : <<v, r, f, k, m, x>>[i] # Absent})),
        v, r, f, k, m, x)

\* A reply text is known by what json.loads makes of it: text that is not
\* JSON (form "invalid", text holds it), a JSON document (form "json"), or,
\* when the envelope's text field holds no string at all, form "notstr".
RawInvalid(t) == [form |-> "invalid", text |-> t, doc |-> NonObject(JNull)]
RawJson(d) == [form |-> "json", text |-> <<>>, doc |-> d]
RawNotStr == [form |-> "notstr", text |-> <<>>, doc |-> NonObject(JInt(5))]
\* The empty string "".
EmptyText == RawInvalid(<<>>)

\* What a call ends in: a returned value (exc = "") or a raised exception.
Returned(v) == [exc |-> "", msg |-> <<>>, value |-> v]
Raised(e, m) ==
    [exc |-> e, msg |-> m,
     value |-> AIEvalResult(JNull, JNull, JNull, JNull, EmptyText)]

\* json.loads(raw_text)
JsonLoads(raw_text) ==
    CASE raw_text.form = "json" -> [exc |-> "", msg |-> <<>>, value |-> raw_text.doc]
      [] raw_text.form = "invalid" ->
            [exc |-> "JSONDecodeError", msg |-> <<"Expecting value">>,
             value |-> raw_text.doc]
      [] OTHER ->
            [exc |-> "TypeError",
             msg |-> <<"the JSON object must be str, bytes or bytearray, not ",
                       raw_text.doc.top.t>>,
             value |-> raw_text.doc]

\* data.get(key, default) on a dict
DictGet(data, key, default) ==
    IF data[key] = Absent THEN default ELSE data[key]

\* ------------------------------------------------------------- _parse_response
\* Lines 154-162: the verdict, or the TypeError of looking an unhashable
\* value up in verdict_map.
NormaliseVerdict(data) ==
    LET verdict == DictGet(data, "verdict", JStr(PartiallyCorrect))
        mapped ==
            CASE PyEq(verdict, JStr(<<"pass">>)) -> JStr(Correct)
              [] PyEq(verdict, JStr(<<"borderline">>)) -> JStr(PartiallyCorrect)
              [] PyEq(verdict, JStr(<<"fail">>)) -> JStr(Incorrect)
              [] OTHER -> verdict
    IN  IF ~Hashable(verdict)
        THEN [exc |-> "TypeError", value |-> verdict,
              msg |-> <<"unhashable type: '", verdict.t, "'">>]
        ELSE IF \E c \in {Correct, PartiallyCorrect, Incorrect} : PyEq(mapped, JStr(c))
             THEN [exc |-> "", msg |-> <<>>, value |-> mapped]
             ELSE [exc |-> "", msg |-> <<>>, value |-> JStr(PartiallyCorrect)]

\* rating_map.get(k): the label of key k, keys compared as Python compares
\* them (True == 1).
RatingMapGet(k, default) ==
    CASE PyEq(k, JInt(1)) -> JStr(Again)
      [] PyEq(k, JInt(2)) -> JStr(Hard)
      [] PyEq(k, JInt(3)) -> JStr(Good)
      [] PyEq(k, JInt(4)) -> JStr(Easy)
      [] OTHER -> default

\* Lines 164-177: the rating label.
NormaliseRating(data) ==
    LET suggested_rating == DictGet(data, "suggested_rating", JInt(3))
    IN  IF IsInstanceStr(suggested_rating)
        THEN IF suggested_rating.s \in {Again, Hard, Good, Easy}
             THEN suggested_rating
             ELSE LET parsed == PyInt(suggested_rating.s)
                  IN  IF parsed.exc # ""
                      THEN JStr(Good)
                      ELSE RatingMapGet(JInt(parsed.n), JStr(Good))
        ELSE IF IsInstanceInt(suggested_rating)
             THEN RatingMapGet(suggested_rating, JStr(Good))
             ELSE JStr(Good)

\* Lines 179-185: key_fix and memory_tip.
NormaliseFeedback(data) ==
    LET feedback == DictGet(data, "feedback", JNull)
        key_fix == DictGet(data, "key_fix", JNull)
        memory_tip == DictGet(data, "memory_tip", JNull)
    IN  IF IsInstanceStr(feedback) /\ Strip(feedback.s) # <<>>
        THEN [key_fix |-> JStr(Strip(feedback.s)), memory_tip |-> JStr(<<>>)]
        ELSE [key_fix |-> IF Truthy(key_fix) THEN key_fix
                          ELSE JStr(<<"No key fix provided.">>),
              memory_tip |-> IF Truthy(memory_tip) THEN memory_tip
                             ELSE JStr(<<"No memory tip provided.">>)]

\* Lines 152-193: the body of the try, to its return or to the exception
\* that leaves it.
ParseTry(raw_text) ==
    LET loaded == JsonLoads(raw_text)
        data == loaded.value
        verdict == NormaliseVerdict(data)
        fb == NormaliseFeedback(data)
    IN  IF loaded.exc # "" THEN Raised(loaded.exc, loaded.msg)
        ELSE IF data.top.t # "dict"
        THEN Raised("AttributeError",
                    <<"'", data.top.t, "' object has no attribute 'get'">>)
        ELSE IF verdict.exc # "" THEN Raised(verdict.exc, verdict.msg)
        ELSE Returned(AIEvalResult(verdict.value, NormaliseRating(data),
                                   fb.key_fix, fb.memory_tip, raw_text))

\* A bug: the malformed-output result built without the text received.
MalformedOutputDropsText(raw_text) ==
    AIEvalResult(JStr(<<"fail">>), JStr(Again),
                 JStr(<<"Could not parse AI response.">>),
                 JStr(<<"Try again or simplify your answer for clarity.">>),
                 EmptyText)

\* Lines 194-202: except json.JSONDecodeError
MalformedOutput(raw_text) ==
    AIEvalResult(JStr(<<"fail">>), JStr(Again),
                 JStr(<<"Could not parse AI response.">>),
                 JStr(<<"Try again or simplify your answer for clarity.">>),
                 raw_text)

\* Lines 203-210: except Exception as e
FormatError(raw_text, msg) ==
    AIEvalResult(JStr(<<"fail">>), JStr(Again),
                 JStr(<<"AI response format error: ">> \o msg),
                 JStr(<<"Try again or simplify your answer for clarity.">>),
                 raw_text)

\* A bug: only json.JSONDecodeError is caught.
ParseResponseNoCatchAll(raw_text) ==
    LET body == ParseTry(raw_text)
    IN  IF body.exc = "JSONDecodeError"
        THEN Returned(MalformedOutput(raw_text))
        ELSE body

\* AIClient._parse_response(raw_text, context): what the call returns, or
\* the exception it lets through.
_parse_response(raw_text) ==
    LET body == ParseTry(raw_text)
    IN  CASE body.exc = "" -> body
          [] body.exc = "JSONDecodeError" -> Returned(MalformedOutput(raw_text))
          [] OTHER -> Returned(FormatError(raw_text, body.msg))

\* ------------------------------------------------------------- generate_response
ClozeNote ==
    "\n[SYSTEM NOTE: This is a CLOZE (fill-in-the-blank) card. The 'USER_ANSWER' generally contains ONLY the missing text, while 'CORRECT_ANSWER' contains the full completed sentence. Grade 'Correct' if the user's input accurately fills the gap in the QUESTION.]"

\* AIClient.__init__, line 66: api_key or os.environ.get("GEMINI_API_KEY")
AIClientInit(api_key_arg, environ_key) ==
    IF Truthy(api_key_arg) THEN api_key_arg ELSE environ_key

\* A bug: `if self.api_key is None`, which lets an empty key through.
KeyMissingOnlyNone(key) == key = JNull

\* Line 81: not self.api_key
KeyMissing(key) == ~Truthy(key)

\* Lines 82-88
MissingKeyResult ==
    AIEvalResult(JStr(Incorrect), JStr(Again),
                 JStr(<<"Missing GEMINI_API_KEY environment variable. Set it in your shell or .env file.">>),
                 JStr(<<"Add GEMINI_API_KEY to your environment and retry.">>),
                 EmptyText)

\* Lines 90-104
BuildUserMessage(question, correct_answer, user_answer, is_cloze) ==
    <<"FLASHCARD_QUESTION: ">> \o question
        \o <<"\nCORRECT_ANSWER: ">> \o correct_answer
        \o <<"\nUSER_ANSWER: ">> \o user_answer
        \o (IF is_cloze THEN <<ClozeNote>> ELSE <<>>)

\* Lines 141-149: except Exception as e
AIFailure(msg) ==
    AIEvalResult(JStr(Incorrect), JStr(Again),
                 JStr(<<"AI Error: ">> \o msg),
                 JStr(<<"Retry in a moment or check your connection.">>),
                 EmptyText)

\* Lines 133-139: the body of the try once urlopen has answered with
\* `reply`: the transport's own exception, the envelope's decoding, the
\* extraction of candidates[0].content.parts[0].text, _parse_response.
ReceiveTry(reply) ==
    CASE reply.kind = "URLError" ->
            Raised("URLError", <<"<urlopen error [Errno 111] Connection refused>">>)
      [] reply.kind = "HTTPError" ->
            Raised("HTTPError", <<"HTTP Error 429: Too Many Requests">>)
      [] reply.kind = "BodyNotJson" ->
            Raised("JSONDecodeError", <<"Expecting value">>)
      [] reply.kind = "MissingField" ->
            Raised("ValueError", <<"Gemini response missing expected fields.">>)
      [] OTHER -> _parse_response(reply.text)

\* Lines 125-149: the try and its except Exception.
Receive(reply) ==
    LET body == ReceiveTry(reply)
    IN  IF body.exc = "" THEN body ELSE Returned(AIFailure(body.msg))

\* ------------------------------------------------------------- inputs
Pad(n) == [i \in 1..n |-> " "]
Pads == {Pad(n) : n \in 0..MaxPad}
DigitChars == {Digits[k + 1] : k \in 0..MaxInt}
DigitStrings ==
    {<<d>> : d \in DigitChars} \cup {<<d, e>> : d \in {"0", "1"}, e \in DigitChars}
NumericStrings ==
    {l \o sign \o ds \o r :
        l \in Pads, sign \in {<<>>, <<"+">>, <<"-">>}, ds \in DigitStrings, r \in Pads}

VerdictValues ==
    {Absent, JNull, JStr(<<"pass">>), JStr(<<"borderline">>), JStr(<<"fail">>),
     JStr(Correct), JStr(PartiallyCorrect), JStr(Incorrect),
     JStr(<<"maybe">>), JStr(<<"correct">>), JStr(<<>>),
     JInt(1), JBool(TRUE), JFloat(10), JList(0), JList(1), JDict(0), JDict(1)}

RatingValues ==
    {Absent, JNull, JBool(TRUE), JBool(FALSE), JFloat(10), JFloat(25),
     JList(1), JDict(0)}
    \cup {JInt(k) : k \in -1..MaxInt}
    \cup {JStr(x) : x \in {Again, Hard, Good, Easy, <<"again">>, <<"abc">>, <<>>,
                           <<"3", ".", "0">>, <<"1", " ", "2">>, <<"+">>}}
    \cup {JStr(x) : x \in NumericStrings}
CoreRatings == {Absent, JInt(4), JStr(<<"1">>), JBool(TRUE)}

FeedbackValues ==
    {Absent, JNull, JStr(<<>>), JInt(3), JList(1)}
    \cup {JStr(l \o w \o r) :
            l \in Pads, r \in Pads, w \in {<<>>, <<"Name the lock owner.">>}}
KeyFixValues ==
    {Absent, JStr(<<>>), JStr(<<" ">>), JStr(<<"State the invariant.">>),
     JInt(0), JInt(5), JList(1)}
MemoryTipValues ==
    {Absent, JNull, JStr(<<"Think of a turnstile.">>), JBool(TRUE), JDict(0)}

ObjectDocs ==
    {Object(v, r, Absent, Absent, Absent, Absent) :
        v \in VerdictValues, r \in CoreRatings}
    \cup {Object(Absent, r, Absent, Absent, Absent, Absent) : r \in RatingValues}
    \cup {Object(Absent, Absent, f, k, m, Absent) :
            f \in FeedbackValues, k \in KeyFixValues, m \in MemoryTipValues}
    \cup {Object(v, JInt(2), JStr(<<"Name the lock owner.">>), Absent, Absent, x) :
            v \in {JStr(<<"borderline">>), JDict(1)}, x \in {JStr(<<"x">>), JList(1)}}
NonObjectDocs ==
    {NonObject(v) : v \in {JNull, JList(0), JList(2), JInt(5), JFloat(15),
                           JBool(TRUE), JStr(<<"pass">>)}}
InvalidTexts == {<<>>, <<" ">>, <<"not json">>, <<"{", "\"verdict\"", ":">>}

\* The strings _parse_response may be given.
ReplyTexts ==
    {RawInvalid(t) : t \in InvalidTexts}
    \cup {RawJson(d) : d \in ObjectDocs \cup NonObjectDocs}

TextReply(t) == [kind |-> "text", text |-> t]
NoReply == [kind |-> "none", text |-> EmptyText]
\* What urlopen and the envelope can give one request.
BackendReplies ==
    {[kind |-> k, text |-> EmptyText] :
        k \in {"URLError", "HTTPError", "BodyNotJson", "MissingField"}}
    \cup {TextReply(t) : t \in ReplyTexts \cup {RawNotStr}}

Questions == {<<"What does a mutex guard?">>,
              <<"A mutex guards a ", "[...]", ".">>}
Answers == {<<"A critical section.">>}
UserAnswers == {<<"critical section">>}
\* card.q(), card.a() and card.model()["type"] of a card.
Cards == [q : Questions, a : Answers, model_type : {0, 1}]
KeyArgs == {JNull, JStr(<<>>), JStr(<<"secret">>)}
EnvironKeys == {JNull, JStr(<<>>), JStr(<<"secret">>)}

\* ------------------------------------------------------------- state
VARIABLES
    environ,        \* os.environ.get("GEMINI_API_KEY"): None when unset
    api_key,        \* self.api_key of the AIClient
    pc,             \* "idle", "awaiting" (inside urlopen), "done"
    call,           \* the call in progress
    user_message,   \* the prompt of the request in flight
    http_requests,  \* HTTP requests issued so far
    reply,          \* what the back end answered to this call
    outcome,        \* what the call returned or raised
    \* AIReviewer
    card,           \* self.card: the id of the card under review, 0 for None
    buried,         \* the cards buried or suspended: the scheduler skips them
    review,         \* how many reviews (of a card, to its answer) have begun
    state,          \* Reviewer.state: "question" or "answer"
    input_field,    \* self.input_field
    submit_btn,     \* self.submit_btn
    stale_btn,      \* a button of an earlier question is still in the layout,
                    \* shown and enabled
    ai_feedback,    \* the ai-feedback elements of the web view, oldest first
    tasks,          \* background evaluations not yet completed
    next_task,      \* the id the next background evaluation gets
    ignored         \* how many results on_evaluation_complete dropped

clientVars == <<pc, call, user_message, reply, outcome>>
ui == <<state, input_field, submit_btn, stale_btn, ai_feedback>>
reviewerVars == <<card, buried, review, state, input_field, submit_btn, stale_btn,
                  ai_feedback, tasks, next_task, ignored>>
vars == <<environ, api_key, http_requests, clientVars, reviewerVars>>

\* A Qt widget the reviewer holds, or None.
NoWidget == [exists |-> FALSE, enabled |-> FALSE, hidden |-> FALSE, text |-> ""]
NoCall == [entry |-> "", key |-> JNull, is_cloze |-> FALSE, http_at_start |-> 0]
NoOutcome == [exc |-> "pending", msg |-> <<>>,
              value |-> AIEvalResult(JNull, JNull, JNull, JNull, EmptyText)]

Init ==
    /\ environ \in EnvironKeys
    /\ \E api_key_arg \in KeyArgs : api_key = AIClientInit(api_key_arg, environ)
    /\ pc = "idle"
    /\ call = NoCall
    /\ user_message = <<>>
    /\ http_requests = 0
    /\ reply = NoReply
    /\ outcome = NoOutcome
    /\ card = 0
    /\ buried = {}
    /\ review = 0
    /\ state = "none"
    /\ input_field = NoWidget
    /\ submit_btn = NoWidget
    /\ stale_btn = FALSE
    /\ ai_feedback = <<>>
    /\ tasks = {}
    /\ next_task = 1
    /\ ignored = 0

\* A direct call of AIClient._parse_response(raw_text, context).
ParseCall ==
    \E raw_text \in ReplyTexts :
        /\ pc = "idle"
        /\ call' = [entry |-> "_parse_response", key |-> api_key,
                    is_cloze |-> FALSE, http_at_start |-> http_requests]
        /\ reply' = TextReply(raw_text)
        /\ outcome' = _parse_response(raw_text)
        /\ pc' = "done"
        /\ UNCHANGED <<environ, api_key, user_message, http_requests, reviewerVars>>

\* Lines 81-132 of generate_response on the client holding `key`: the
\* missing-key return, or the prompt and the POST that urlopen sends.
\* `judged` is what the caller of `entry` took the card for.
Request(entry, key, question, correct_answer, user_answer, is_cloze, judged) ==
    /\ pc = "idle"
    /\ call' = [entry |-> entry, key |-> key, is_cloze |-> judged,
                http_at_start |-> http_requests]
    /\ reply' = NoReply
    /\ IF KeyMissing(key)
       THEN /\ outcome' = Returned(MissingKeyResult)
            /\ pc' = "done"
            /\ UNCHANGED <<user_message, http_requests>>
       ELSE /\ http_requests < MaxRequests
            /\ user_message' =
                    BuildUserMessage(question, correct_answer, user_answer, is_cloze)
            /\ http_requests' = http_requests + 1
            /\ outcome' = NoOutcome
            /\ pc' = "awaiting"
    /\ UNCHANGED <<environ, api_key, reviewerVars>>

\* AIClient.generate_response(question, correct_answer, user_answer, is_cloze)
generate_response ==
    \E question \in Questions, correct_answer \in Answers,
       user_answer \in UserAnswers, is_cloze \in BOOLEAN :
        Request("generate_response", api_key, question, correct_answer,
                user_answer, is_cloze, is_cloze)

\* AIClient.evaluate_card(front, back, user_answer, card_mode), line 72:
\* generate_response(front, back, user_answer), is_cloze left at its default.
EvaluateCard(entry, key, front, back, user_answer, card_mode) ==
    Request(entry, key, front, back, user_answer, FALSE, card_mode = "cloze")

evaluate_card ==
    \E front \in Questions, back \in Answers, user_answer \in UserAnswers,
       card_mode \in {"basic", "cloze"} :
        EvaluateCard("evaluate_card", api_key, front, back, user_answer, card_mode)

\* "[...]" in q
HasClozeMarker(q) == \E i \in 1..Len(q) : q[i] = "[...]"

\* AIReviewOrchestrator.evaluate(card, user_answer), on its own
\* OllamaClient(), which takes its key from the environment.
evaluate ==
    \E card_arg \in Cards, user_answer \in UserAnswers :
        LET is_cloze == card_arg.model_type = 1 \/ HasClozeMarker(card_arg.q)
            card_mode == IF is_cloze THEN "cloze" ELSE "basic"
        IN  EvaluateCard("evaluate", AIClientInit(JNull, environ),
                         card_arg.q, card_arg.a, user_answer, card_mode)

\* urlopen answers (or fails) and generate_response runs to its return.
urlopen ==
    \E r \in BackendReplies :
        /\ pc = "awaiting"
        /\ reply' = r
        /\ outcome' = Receive(r)
        /\ pc' = "done"
        /\ UNCHANGED <<environ, api_key, call, user_message, http_requests,
                       reviewerVars>>

\* The caller takes the result.
Return ==
    /\ pc = "done"
    /\ pc' = "idle"
    /\ call' = NoCall
    /\ reply' = NoReply
    /\ outcome' = NoOutcome
    /\ user_message' = <<>>
    /\ UNCHANGED <<environ, api_key, http_requests, reviewerVars>>

Next ==
    \/ ParseCall
    \/ generate_response
    \/ evaluate_card
    \/ evaluate
    \/ urlopen
    \/ Return

Spec == Init /\ [][Next]_vars


\* ------------------------------------------------------------- AIReviewer
\* Reviews and background evaluations of one run.
MaxReviews == 2
MaxTasks == 2

CardIds == {1, 2}
\* card.question(), card.answer() and card.note_type()["type"] by card id.
QuestionHtml(cid) ==
    IF cid = 1 THEN <<"<b>", "What does a mutex guard?", "</b>">>
    ELSE <<"A mutex guards a ", "[...]", ".">>
AnswerHtml(cid) ==
    IF cid = 1 THEN <<"<div>", "A critical section.", "</div>">>
    ELSE <<"A mutex guards a ", "<b>", "critical section", "</b>", ".">>
NoteType(cid) == IF cid = 1 THEN 0 ELSE 1
\* anki.utils.strip_html: the text without its tags.
HtmlTags == {"<b>", "</b>", "<div>", "</div>"}
strip_html(html) == SelectSeq(html, LAMBDA sym : sym \notin HtmlTags)

\* What the back end may answer a background evaluation.
ReviewerReplies ==
    {[kind |-> "URLError", text |-> EmptyText],
     TextReply(RawInvalid(<<"not json">>)),
     TextReply(RawJson(Object(JStr(Correct), JInt(4),
                              JStr(<<"Name the lock owner.">>),
                              Absent, Absent, Absent)))}

\* AIReviewer._showQuestion.  Reviewer calls it when a review begins, on the
\* card the scheduler hands it (after the previous card was answered, which
\* may bring the same card back, or was buried or suspended), and again to
\* redraw the question of the review in progress.
\* The JavaScript removes the first ai-feedback element; the old input field
\* is deleted, the old button is not: it stays in the layout as it was.
_showQuestion ==
    \E cid \in CardIds :
        /\ cid \notin buried
        /\ \/ /\ state \in {"none", "answer"}
              /\ review < MaxReviews
              /\ review' = review + 1
              /\ UNCHANGED buried
           \/ /\ state = "question"
              /\ cid # card
              /\ review < MaxReviews
              /\ review' = review + 1
              /\ buried' = buried \cup {card}
           \/ /\ state = "question"
              /\ cid = card
              /\ UNCHANGED <<review, buried>>
        /\ card' = cid
        /\ state' = "question"
        /\ ai_feedback' = IF ai_feedback = <<>> THEN <<>> ELSE Tail(ai_feedback)
        /\ input_field' = [exists |-> TRUE, enabled |-> TRUE, hidden |-> FALSE,
                           text |-> "Type or speak your answer here..."]
        /\ submit_btn' = [exists |-> TRUE, enabled |-> TRUE, hidden |-> FALSE,
                          text |-> "Evaluate with AI"]
        /\ stale_btn' = (stale_btn \/ (submit_btn.exists /\ submit_btn.enabled
                                                 /\ ~submit_btn.hidden))
        /\ UNCHANGED <<environ, api_key, http_requests, clientVars, tasks,
                       next_task, ignored>>

\* AIReviewer.on_evaluate: the click on the button of the current question.
on_evaluate ==
    \E user_ans \in UserAnswers :
        /\ card # 0
        /\ \/ submit_btn.exists /\ submit_btn.enabled /\ ~submit_btn.hidden
           \/ stale_btn
        /\ next_task <= MaxTasks
        /\ submit_btn' = [submit_btn EXCEPT !.enabled = FALSE, !.text = "Thinking..."]
        /\ tasks' = tasks \cup
                {[id |-> next_task, expected_cid |-> card, requested_in |-> review,
                  user_message |->
                      BuildUserMessage(strip_html(QuestionHtml(card)),
                                       strip_html(AnswerHtml(card)),
                                       user_ans, NoteType(card) = 1),
                  done |-> FALSE, future |-> NoOutcome]}
        /\ next_task' = next_task + 1
        /\ UNCHANGED <<environ, api_key, http_requests, clientVars, card, buried, review,
                       state, input_field, stale_btn, ai_feedback, ignored>>

\* The task of run_in_background: generate_response on the worker thread.
run_in_background ==
    \E t \in tasks, r \in ReviewerReplies :
        /\ ~t.done
        /\ IF KeyMissing(api_key)
           THEN /\ tasks' = (tasks \ {t}) \cup
                        {[t EXCEPT !.done = TRUE,
                                   !.future = Returned(MissingKeyResult)]}
                /\ UNCHANGED http_requests
           ELSE /\ http_requests < MaxRequests
                /\ http_requests' = http_requests + 1
                /\ tasks' = (tasks \ {t}) \cup
                        {[t EXCEPT !.done = TRUE, !.future = Receive(r)]}
        /\ UNCHANGED <<environ, api_key, clientVars, card, buried, review, state,
                       input_field, submit_btn, stale_btn, ai_feedback, next_task,
                       ignored>>

\* AIReviewer._showAnswer(ai_result), lines 79-99, as the update of the
\* widgets and of the web view; `t` is the evaluation the result is of.
ShowAnswer(ai_result, t) ==
    /\ state' = "answer"
    /\ input_field' = IF input_field.exists
                      THEN [input_field EXCEPT !.hidden = TRUE] ELSE input_field
    /\ submit_btn' = IF submit_btn.exists
                     THEN [submit_btn EXCEPT !.hidden = TRUE] ELSE submit_btn
    /\ UNCHANGED stale_btn
    /\ ai_feedback' = Append(ai_feedback,
                             [result |-> ai_result,
                              expected_cid |-> t.expected_cid,
                              requested_in |-> t.requested_in,
                              shown_on |-> card, shown_in |-> review])

\* A bug: only `not self.card` is tested.
IsStaleOnlyNone(expected_cid) == card = 0

\* Line 70: not self.card or self.card.id != expected_cid
IsStale(expected_cid) == card = 0 \/ card # expected_cid

\* AIReviewer.on_evaluation_complete(future, expected_cid), on the main thread.
on_evaluation_complete ==
    \E t \in tasks :
        /\ t.done
        /\ tasks' = tasks \ {t}
        /\ IF IsStale(t.expected_cid)
           THEN /\ ignored' = ignored + 1
                /\ UNCHANGED ui
           ELSE /\ IF t.future.exc = ""
                   THEN ShowAnswer(t.future.value, t)
                   ELSE /\ submit_btn' = [submit_btn EXCEPT !.enabled = TRUE]
                        /\ UNCHANGED <<state, input_field, stale_btn, ai_feedback>>
                /\ UNCHANGED ignored
        /\ UNCHANGED <<environ, api_key, http_requests, clientVars, card, buried, review,
                       next_task>>

\* The user asks for the answer: Reviewer calls _showAnswer() with no result.
_showAnswer ==
    /\ state = "question"
    /\ state' = "answer"
    /\ input_field' = [input_field EXCEPT !.hidden = TRUE]
    /\ submit_btn' = [submit_btn EXCEPT !.hidden = TRUE]
    /\ UNCHANGED <<environ, api_key, http_requests, clientVars, card, buried, review,
                   stale_btn, ai_feedback, tasks, next_task, ignored>>

\* The deck is finished: the reviewer is left with no card.
NoMoreCards ==
    /\ card # 0
    /\ card' = 0
    /\ state' = "none"
    /\ UNCHANGED <<environ, api_key, http_requests, clientVars, buried, review,
                   input_field, submit_btn, stale_btn, ai_feedback, tasks, next_task,
                   ignored>>

ReviewerNext ==
    \/ _showQuestion
    \/ on_evaluate
    \/ run_in_background
    \/ on_evaluation_complete
    \/ _showAnswer
    \/ NoMoreCards

ReviewerSpec == Init /\ [][ReviewerNext]_vars

\* ------------------------------------------------------------- properties
Verdicts == {JStr(Correct), JStr(PartiallyCorrect), JStr(Incorrect)}
Ratings == {JStr(Again), JStr(Hard), JStr(Good), JStr(Easy)}
result == outcome.value
Finished == pc = "done"
\* The call went through generate_response.
Graded == call.entry \in {"generate_response", "evaluate_card", "evaluate"}
\* A reply text reached _parse_response.
GotText == reply.kind = "text"
IsObjectReply ==
    GotText /\ reply.text.form = "json" /\ reply.text.doc.top.t = "dict"
NonEmptyStr(x) == x.t = "str" /\ x.s # <<>>

\* C1  Enum safety: every result of _parse_response and of generate_response
\* has a verdict among Correct, Partially Correct, Incorrect and a
\* suggested_rating among Again, Hard, Good, Easy.
EnumSafety ==
    (Finished /\ outcome.exc = "") =>
        /\ result.verdict \in Verdicts
        /\ result.suggested_rating \in Ratings

\* C2  Conservative fail-safe: on every failure path (missing credential,
\* transport error, envelope without the text field, text that is not JSON,
\* JSON of an unexpected shape) the result is Incorrect / Again.
FailurePath ==
    \/ Graded /\ call.key \in {JNull, JStr(<<>>)}
    \/ reply.kind \in {"URLError", "HTTPError", "BodyNotJson", "MissingField"}
    \/ GotText /\ reply.text.form # "json"
    \/ GotText /\ reply.text.form = "json" /\ reply.text.doc.top.t # "dict"
ConservativeFailSafe ==
    (Finished /\ FailurePath) =>
        /\ outcome.exc = ""
        /\ result.verdict = JStr(Incorrect)
        /\ result.suggested_rating = JStr(Again)

\* C3  Rating normalisation: for a reply that decodes to a JSON object,
\* 1, 2, 3, 4 (integer or decimal string) give Again, Hard, Good, Easy, a
\* label gives itself, and every other value or a missing key gives Good.
ClaimedRating(r) ==
    CASE r \in Ratings -> r
      [] r \in {JInt(1), JStr(<<"1">>)} -> JStr(Again)
      [] r \in {JInt(2), JStr(<<"2">>)} -> JStr(Hard)
      [] r \in {JInt(3), JStr(<<"3">>)} -> JStr(Good)
      [] r \in {JInt(4), JStr(<<"4">>)} -> JStr(Easy)
      [] OTHER -> JStr(Good)
RatingNormalisation ==
    (Finished /\ IsObjectReply) =>
        /\ outcome.exc = ""
        /\ result.suggested_rating = ClaimedRating(reply.text.doc.suggested_rating)

\* C4  Verdict normalisation: for a reply that decodes to a JSON object,
\* pass, borderline, fail give Correct, Partially Correct, Incorrect, a
\* canonical value gives itself, and any other value or a missing key gives
\* Partially Correct.
ClaimedVerdict(v) ==
    CASE v \in Verdicts -> v
      [] v = JStr(<<"pass">>) -> JStr(Correct)
      [] v = JStr(<<"borderline">>) -> JStr(PartiallyCorrect)
      [] v = JStr(<<"fail">>) -> JStr(Incorrect)
      [] OTHER -> JStr(PartiallyCorrect)
VerdictNormalisation ==
    (Finished /\ IsObjectReply) =>
        /\ outcome.exc = ""
        /\ result.verdict = ClaimedVerdict(reply.text.doc.verdict)

\* C5  Totality: _parse_response and generate_response always return an
\* AIEvalResult, every one of its five fields holding a value, and never
\* raise, whatever the reply text, the transport or the back end does.
Populated(x) == x \notin {JNull, Absent}
Totality ==
    Finished =>
        /\ outcome.exc = ""
        /\ Populated(result.verdict)
        /\ Populated(result.suggested_rating)
        /\ Populated(result.key_fix)
        /\ Populated(result.memory_tip)
        /\ result.raw_response.form \in {"invalid", "json", "notstr"}
TotalityWitness ==
    /\ Finished
    /\ call.entry = "_parse_response"
    /\ reply.text = RawJson(NonObject(JList(2)))
    /\ outcome.exc = ""

\* C6  Missing credential: with no api_key argument and GEMINI_API_KEY unset
\* or empty, a grading call issues no HTTP request and returns the fixed
\* missing-credential result.
MissingCredentialShortCircuits ==
    (pc # "idle" /\ Graded /\ call.key \in {JNull, JStr(<<>>)}) =>
        /\ pc = "done"
        /\ http_requests = call.http_at_start
        /\ reply = NoReply
        /\ outcome.exc = ""
        /\ result.verdict = JStr(Incorrect)
        /\ result.suggested_rating = JStr(Again)
        /\ result.key_fix = JStr(<<"Missing GEMINI_API_KEY environment variable. Set it in your shell or .env file.">>)
        /\ result.raw_response = EmptyText
MissingCredentialWitness ==
    /\ Finished
    /\ call.entry = "generate_response"
    /\ call.key = JStr(<<>>)
    /\ environ = JStr(<<>>)
    /\ result.verdict = JStr(Incorrect)

\* C7 as stated: in every grading attempt in which a reply text was
\* received, raw_response is that text, and raw_response is the empty string
\* only when none was received.
RawResponsePreservedOrNoReply ==
    (Finished /\ Graded /\ outcome.exc = "") =>
        /\ GotText => result.raw_response = reply.text
        /\ result.raw_response = EmptyText => ~GotText

\* C7  raw_response preservation, amended: whenever a reply text reached
\* _parse_response, raw_response is that text unchanged, whether parsing
\* succeeded or failed; raw_response is the empty string only when no reply
\* text was received or the text received is itself the empty string.
RawResponsePreserved ==
    (Finished /\ outcome.exc = "") =>
        /\ GotText => result.raw_response = reply.text
        /\ result.raw_response = EmptyText =>
                (~GotText \/ reply.text = RawInvalid(<<>>))
RawResponseWitness ==
    /\ Finished
    /\ call.entry = "generate_response"
    /\ reply = TextReply(RawInvalid(<<"not json">>))
    /\ result.raw_response = RawInvalid(<<"not json">>)

\* C8  Feedback never empty: in every result one of key_fix and memory_tip
\* is a non-empty string.
FeedbackNeverEmpty ==
    (Finished /\ outcome.exc = "") =>
        (NonEmptyStr(result.key_fix) \/ NonEmptyStr(result.memory_tip))

\* C9  Cloze augmentation: the prompt sent carries the cloze note exactly
\* when the caller judged the card a cloze card: generate_response called
\* with is_cloze=True, or AIReviewOrchestrator.evaluate on a cloze card.
HasClozeNote(message) == \E i \in 1..Len(message) : message[i] = ClozeNote
ClozeAugmentation ==
    (pc = "awaiting" /\ call.entry \in {"generate_response", "evaluate"}) =>
        (HasClozeNote(user_message) <=> call.is_cloze)

\* C10 as stated: a result is rendered only in the review during which its
\* evaluation was requested.
RenderedInRequestingReview ==
    \A i \in 1..Len(ai_feedback) :
        ai_feedback[i].requested_in = ai_feedback[i].shown_in

\* C10  Staleness, amended: a result is rendered only while the card under
\* review has the id of the card its evaluation was requested for (the same
\* review or a later one of that card); a result that arrives while another
\* card, or none, is under review is dropped and changes no UI state.
Completes(t) == t \in tasks /\ \A u \in tasks' : u.id # t.id
RenderedForRequestedCard ==
    /\ [](\A i \in 1..Len(ai_feedback) :
            /\ ai_feedback[i].shown_on # 0
            /\ ai_feedback[i].expected_cid = ai_feedback[i].shown_on)
    /\ [][\A t \in tasks :
            (Completes(t) /\ (card = 0 \/ card # t.expected_cid)) =>
                UNCHANGED ui]_vars
StalenessWitness ==
    /\ ignored > 0
    /\ Len(ai_feedback) > 0
    /\ ai_feedback[1].requested_in # ai_feedback[1].shown_in

====
